---- MODULE Spec2Model ----
(***************************************************************************)
(* Magnolia asset checker: the asset extractor, the raw-text reference     *)
(* resolver, the analysis combiner and the pipeline that the CLI and the   *)
(* POST /analyze handler run over them.                                    *)
(*                                                                         *)
(* A JavaScript string is a sequence of symbols.  A symbol is " " (one     *)
(* whitespace character) or an indivisible run of non-blank characters     *)
(* ("mgnl:asset", "/", "u1").  trim, indexOf, join and === are modelled on *)
(* these sequences.  undefined and null are two reserved one-symbol values *)
(* that no input text contains.                                            *)
(***************************************************************************)
EXTENDS Integers, Sequences, FiniteSets, TLC

VARIABLES
    op,      \* the core operation under test ("none" while the pipeline runs)
    args,    \* its arguments
    result,  \* its return value, meaningful once done
    done,    \* whether the operation has returned
    files,   \* the file system: path -> content, or NoFile
    run,     \* per pipeline run: control position and the handler's locals
    ui       \* the page of the web front-end: its elements and its requests

vars == <<op, args, result, done, files, run, ui>>
coreVars == <<op, args, result, done>>
pipeVars == <<files, run>>

----------------------------------------------------------------------------
(* JavaScript values *)

Undefined == <<"#undefined">>
Null == <<"#null">>
EmptyString == <<>>
NA == <<"N/A">>

\* ToBoolean of a string, undefined or null
Truthy(v) == v # Undefined /\ v # Null /\ v # EmptyString

\* a || b
Or(a, b) == IF Truthy(a) THEN a ELSE b

IsSpace(c) == c = " "

RECURSIVE TrimStart(_)
TrimStart(s) ==
    IF s # <<>> /\ IsSpace(Head(s)) THEN TrimStart(Tail(s)) ELSE s

RECURSIVE TrimEnd(_)
TrimEnd(s) ==
    IF s # <<>> /\ IsSpace(s[Len(s)]) THEN TrimEnd(SubSeq(s, 1, Len(s) - 1)) ELSE s

\* String.prototype.trim
Trim(s) == TrimEnd(TrimStart(s))

\* String.prototype.indexOf: the first 0-based position of pat in text, or -1
IndexOf(text, pat) ==
    LET hits == {p \in 0..(Len(text) - Len(pat)) :
                    SubSeq(text, p + 1, p + Len(pat)) = pat}
    IN IF hits = {} THEN -1 ELSE CHOOSE p \in hits : \A q \in hits : p <= q

\* Array.prototype.join
RECURSIVE Join(_, _)
Join(parts, sep) ==
    IF parts = <<>> THEN <<>>
    ELSE IF Len(parts) = 1 THEN parts[1]
    ELSE parts[1] \o sep \o Join(Tail(parts), sep)

\* Array.prototype.map(asset => asset.uuid)
MapUuid(assets) == [i \in 1..Len(assets) |-> assets[i].uuid]

SeqToSet(s) == {s[i] : i \in 1..Len(s)}

----------------------------------------------------------------------------
(* MagnoliaAssetChecker.analyzeAssets *)

\* the mutant of keepAsset: no de-duplication
keepAsset_noDedup(asset, seenUUIDs) == asset.uuid # NA

\* the guard of the loop body: the record has an identifier not seen before
keepAsset(asset, seenUUIDs) == asset.uuid # NA /\ asset.uuid \notin seenUUIDs

\* the mutants of pushAsset: the two lists are swapped; the else of the
\* classification is lost
pushAsset_swapped(acc, asset, referencedUUIDSet) ==
    [allAssets |-> Append(acc.allAssets, asset),
     referencedAssets |->
        IF asset.uuid \in referencedUUIDSet
        THEN acc.referencedAssets ELSE Append(acc.referencedAssets, asset),
     unusedAssets |->
        IF asset.uuid \in referencedUUIDSet
        THEN Append(acc.unusedAssets, asset) ELSE acc.unusedAssets]

\* a further mutant of pushAsset: a referenced record is put in front
pushAsset_front(acc, asset, referencedUUIDSet) ==
    [allAssets |-> Append(acc.allAssets, asset),
     referencedAssets |->
        IF asset.uuid \in referencedUUIDSet
        THEN <<asset>> \o acc.referencedAssets ELSE acc.referencedAssets,
     unusedAssets |->
        IF asset.uuid \in referencedUUIDSet
        THEN acc.unusedAssets ELSE Append(acc.unusedAssets, asset)]

pushAsset_noElse(acc, asset, referencedUUIDSet) ==
    [allAssets |-> Append(acc.allAssets, asset),
     referencedAssets |->
        IF asset.uuid \in referencedUUIDSet
        THEN Append(acc.referencedAssets, asset) ELSE acc.referencedAssets,
     unusedAssets |-> Append(acc.unusedAssets, asset)]

\* the loop body: the record joins uniqueAssets and one of the two other lists
pushAsset(acc, asset, referencedUUIDSet) ==
    [allAssets |-> Append(acc.allAssets, asset),
     referencedAssets |->
        IF asset.uuid \in referencedUUIDSet
        THEN Append(acc.referencedAssets, asset) ELSE acc.referencedAssets,
     unusedAssets |->
        IF asset.uuid \in referencedUUIDSet
        THEN acc.unusedAssets ELSE Append(acc.unusedAssets, asset)]

RECURSIVE analyzeLoop(_, _, _, _, _)
analyzeLoop(assets, i, referencedUUIDSet, seenUUIDs, acc) ==
    IF i > Len(assets) THEN acc
    ELSE IF keepAsset(assets[i], seenUUIDs)
    THEN analyzeLoop(assets, i + 1, referencedUUIDSet,
                     seenUUIDs \cup {assets[i].uuid},
                     pushAsset(acc, assets[i], referencedUUIDSet))
    ELSE analyzeLoop(assets, i + 1, referencedUUIDSet, seenUUIDs, acc)

analyzeAssets(assets, referencedUUIDs) ==
    analyzeLoop(assets, 1, referencedUUIDs, {},
                [allAssets |-> <<>>, referencedAssets |-> <<>>, unusedAssets |-> <<>>])

----------------------------------------------------------------------------
(* Files and exceptions *)

NoFile == [kind |-> "none"]
TextFile(text) == [kind |-> "text", text |-> text]
XmlFile(doc) == [kind |-> "xml", doc |-> doc]

\* what a call did: returned value, or threw
Returned(v) == [threw |-> FALSE, value |-> v]
Thrown == [threw |-> TRUE, value |-> <<>>]

\* fs.readFile rejects when the file is not there or the read fails
readFileFails(file, ioError) == file = NoFile \/ ioError

----------------------------------------------------------------------------
(* MagnoliaAssetChecker.findReferencedAssetUUIDs: the raw-text policy *)

\* the mutant of found: the position is tested for truthiness
found_truthy(position) == position > 0

\* position !== -1
found(position) == position # -1

\* the mutant of searchLoop: the loop ends at the first identifier not found
RECURSIVE searchLoop_break(_, _, _, _)
searchLoop_break(pageContent, assetUUIDs, i, referencedUUIDs) ==
    IF i > Len(assetUUIDs) THEN referencedUUIDs
    ELSE IF found(IndexOf(pageContent, assetUUIDs[i]))
    THEN searchLoop_break(pageContent, assetUUIDs, i + 1,
                          referencedUUIDs \cup {assetUUIDs[i]})
    ELSE referencedUUIDs

RECURSIVE searchLoop(_, _, _, _)
searchLoop(pageContent, assetUUIDs, i, referencedUUIDs) ==
    IF i > Len(assetUUIDs) THEN referencedUUIDs
    ELSE searchLoop(pageContent, assetUUIDs, i + 1,
            IF found(IndexOf(pageContent, assetUUIDs[i]))
            THEN referencedUUIDs \cup {assetUUIDs[i]} ELSE referencedUUIDs)

\* the catch block logs and throws the error again
findReferencedAssetUUIDs(pageFile, ioError, assetUUIDs) ==
    IF readFileFails(pageFile, ioError) THEN Thrown
    ELSE Returned(searchLoop(pageFile.text, assetUUIDs, 1, {}))

----------------------------------------------------------------------------
(* The parsed DAM export.  A document is the sequence of its sv:node and   *)
(* sv:property elements in document order; parent is the position of the   *)
(* parent element, 0 for the Document node.  name is the sv:name attribute *)
(* ("" when the attribute is missing: getAttribute returns "" then), and   *)
(* values holds the textContent of the sv:value elements below a property. *)

SvNode == "sv:node"
SvProperty == "sv:property"

Element(tag, parent, name, values) ==
    [tag |-> tag, parent |-> parent, name |-> name, values |-> values]

JcrPrimaryType == <<"jcr:primaryType">>
JcrUuid == <<"jcr:uuid">>
FileNameProp == <<"fileName">>
JcrContent == <<"jcr:content">>
MgnlAsset == <<"mgnl:asset">>
MgnlResource == <<"mgnl:resource">>

\* node.childNodes, as positions in document order
RECURSIVE childNodesFrom(_, _, _)
childNodesFrom(doc, node, j) ==
    IF j > Len(doc) THEN <<>>
    ELSE (IF doc[j].parent = node THEN <<j>> ELSE <<>>) \o childNodesFrom(doc, node, j + 1)

childNodes(doc, node) == childNodesFrom(doc, node, 1)

\* _getPropertyValue: the trimmed text of the first sv:value, or null
getPropertyValue(doc, propertyNode) ==
    LET valueNodes == doc[propertyNode].values
    IN IF Len(valueNodes) > 0 /\ Truthy(valueNodes[1]) THEN Trim(valueNodes[1]) ELSE Null

\* _extractContentProperties(contentNode)[key]: the last truthy value wins
RECURSIVE contentPropertyLoop(_, _, _, _, _)
contentPropertyLoop(doc, children, i, key, value) ==
    IF i > Len(children) THEN value
    ELSE LET child == children[i]
             propValue == getPropertyValue(doc, child)
         IN contentPropertyLoop(doc, children, i + 1, key,
                IF /\ doc[child].tag = SvProperty
                   /\ Truthy(doc[child].name) /\ Truthy(propValue)
                   /\ doc[child].name = key
                THEN propValue ELSE value)

extractContentProperties(doc, contentNode, key) ==
    contentPropertyLoop(doc, childNodes(doc, contentNode), 1, key, Undefined)

\* the mutant of folderPath: push instead of unshift
RECURSIVE folderPath_push(_, _)
folderPath_push(doc, currentNode) ==
    IF currentNode = 0 \/ doc[currentNode].tag # SvNode THEN <<>>
    ELSE (IF Truthy(doc[currentNode].name) THEN <<doc[currentNode].name>> ELSE <<>>)
            \o folderPath_push(doc, doc[currentNode].parent)

\* the while loop over parentNode: the names of the sv:node ancestors,
\* each put in front of the ones collected so far
RECURSIVE folderPath(_, _)
folderPath(doc, currentNode) ==
    IF currentNode = 0 \/ doc[currentNode].tag # SvNode THEN <<>>
    ELSE folderPath(doc, doc[currentNode].parent)
            \o (IF Truthy(doc[currentNode].name) THEN <<doc[currentNode].name>> ELSE <<>>)

locationOf(doc, assetNode) ==
    LET path == folderPath(doc, doc[assetNode].parent)
    IN IF Len(path) > 0 THEN Join(path, <<"/">>) ELSE <<"root">>

\* the mutant of scanChildren: the fileName of jcr:content is taken even when
\* a fileName was found before
RECURSIVE scanChildren_contentOverrides(_, _, _, _)
scanChildren_contentOverrides(doc, children, i, st) ==
    IF i > Len(children) THEN st
    ELSE LET child == children[i]
             propName == doc[child].name
             propValue == getPropertyValue(doc, child)
             isProp == doc[child].tag = SvProperty
             isContent == doc[child].tag = SvNode /\ doc[child].name = JcrContent
             contentFileName == extractContentProperties(doc, child, FileNameProp)
             uuid1 == IF isProp /\ propName = JcrUuid /\ Truthy(propValue)
                      THEN propValue ELSE st.uuid
             fileName1 == IF isProp /\ propName = FileNameProp /\ Truthy(propValue)
                          THEN propValue ELSE st.fileName
             fileName2 == IF isContent /\ Truthy(contentFileName)
                          THEN contentFileName ELSE fileName1
         IN scanChildren_contentOverrides(doc, children, i + 1,
                                          [uuid |-> uuid1, fileName |-> fileName2])

\* the loop over the asset node's children: st holds uuid and fileName
RECURSIVE scanChildren(_, _, _, _)
scanChildren(doc, children, i, st) ==
    IF i > Len(children) THEN st
    ELSE LET child == children[i]
             propName == doc[child].name
             propValue == getPropertyValue(doc, child)
             isProp == doc[child].tag = SvProperty
             isContent == doc[child].tag = SvNode /\ doc[child].name = JcrContent
             contentFileName == extractContentProperties(doc, child, FileNameProp)
             uuid1 == IF isProp /\ propName = JcrUuid /\ Truthy(propValue)
                      THEN propValue ELSE st.uuid
             fileName1 == IF isProp /\ propName = FileNameProp /\ Truthy(propValue)
                          THEN propValue ELSE st.fileName
             fileName2 == IF isContent /\ Truthy(contentFileName) /\ ~Truthy(fileName1)
                          THEN contentFileName ELSE fileName1
         IN scanChildren(doc, children, i + 1, [uuid |-> uuid1, fileName |-> fileName2])

\* the mutant of assetRecord: a missing identifier becomes the marker
assetRecord_marker(doc, assetNode, st) ==
    <<[fileName |-> Or(st.fileName, doc[assetNode].name),
       uuid |-> Or(st.uuid, NA),
       location |-> locationOf(doc, assetNode)]>>

\* the end of _extractAssetFromAssetNode: <<record>>, or <<>> for null
assetRecord(doc, assetNode, st) ==
    IF Truthy(st.uuid)
    THEN <<[fileName |-> Or(st.fileName, doc[assetNode].name),
            uuid |-> st.uuid,
            location |-> locationOf(doc, assetNode)]>>
    ELSE <<>>

extractAssetFromAssetNode(doc, assetNode) ==
    assetRecord(doc, assetNode,
        scanChildren(doc, childNodes(doc, assetNode), 1,
                     [uuid |-> Null, fileName |-> Null]))

\* the test on an element of allElements: a jcr:primaryType property whose
\* first value is mgnl:asset and whose parent is an sv:node
isAssetMarker(doc, element) ==
    /\ doc[element].tag = SvProperty
    /\ doc[element].name = JcrPrimaryType
    /\ Len(doc[element].values) > 0
    /\ Trim(doc[element].values[1]) = MgnlAsset
    /\ doc[element].parent # 0
    /\ doc[doc[element].parent].tag = SvNode

\* the assets collected by the loop over the first n elements
RECURSIVE extractLoop(_, _)
extractLoop(doc, n) ==
    IF n = 0 THEN <<>>
    ELSE extractLoop(doc, n - 1)
            \o (IF isAssetMarker(doc, n)
                THEN extractAssetFromAssetNode(doc, doc[n].parent) ELSE <<>>)

\* where the try block fails: "none", "read", "parse", or "loop" at element k
NoFault == [at |-> "none", k |-> 0]

\* the mutant of onError: the assets collected so far are returned
onError_partial(collected) == Returned(collected)

\* the catch block of extractAssetsFromXml: log, return []
onError(collected) == Returned(<<>>)

\* MagnoliaAssetExtractor.extractAssetsFromXml
extractAssetsFromXml(file, fault) ==
    IF readFileFails(file, fault.at = "read") THEN onError(<<>>)
    ELSE IF fault.at = "parse" THEN onError(<<>>)
    ELSE IF fault.at = "loop" /\ fault.k <= Len(file.doc)
         THEN onError(extractLoop(file.doc, fault.k - 1))
    ELSE Returned(extractLoop(file.doc, Len(file.doc)))

\* MagnoliaAssetChecker.extractAssetsFromXml: the extractor's list, or [] in
\* its own catch block
checkerExtractAssetsFromXml(file, fault) ==
    LET assets == extractAssetsFromXml(file, fault)
    IN IF assets.threw THEN Returned(<<>>) ELSE assets

----------------------------------------------------------------------------
(* Regular expressions over characters.  In this part a symbol is one      *)
(* character.  A pattern is a sequence of character classes; with the i    *)
(* flag a character and the class are compared after case folding.         *)

Lower(c) ==
    CASE c = "A" -> "a" [] c = "B" -> "b" [] c = "C" -> "c" [] c = "D" -> "d"
      [] c = "E" -> "e" [] c = "F" -> "f" [] c = "G" -> "g" [] c = "J" -> "j"
      [] c = "M" -> "m" [] c = "R" -> "r" [] c = "L" -> "l" [] c = "X" -> "x"
      [] c = "Y" -> "y" [] OTHER -> c

Canon(c, ignoreCase) == IF ignoreCase THEN Lower(c) ELSE c

\* [0-9a-f]
HexClass == {"0", "1", "2", "3", "4", "5", "6", "7", "8", "9", "a", "b", "c", "d", "e", "f"}
\* [a-f0-9-]
HexDashClass == HexClass \cup {"-"}

\* class{n}
Repeat(class, n) == [k \in 1..n |-> class]
\* a literal: one single-character class per character
Literal(text) == [k \in 1..Len(text) |-> {text[k]}]

\* the pattern matches the characters of str that start at position p (1-based)
MatchAt(str, p, pattern, ignoreCase) ==
    /\ p + Len(pattern) - 1 <= Len(str)
    /\ \A k \in 1..Len(pattern) :
          \E c \in pattern[k] : Canon(c, ignoreCase) = Canon(str[p + k - 1], ignoreCase)

\* /^[0-9a-f]{8}-[0-9a-f]{4}-[0-9a-f]{4}-[0-9a-f]{4}-[0-9a-f]{12}$/i
uuidRegex ==
    Repeat(HexClass, 8) \o Literal(<<"-">>) \o Repeat(HexClass, 4) \o Literal(<<"-">>)
        \o Repeat(HexClass, 4) \o Literal(<<"-">>) \o Repeat(HexClass, 4) \o Literal(<<"-">>)
        \o Repeat(HexClass, 12)

\* the mutant of isUUID: the $ anchor is lost
isUUID_noEndAnchor(str) == MatchAt(str, 1, uuidRegex, TRUE)

\* _isUUID: uuidRegex.test(str); ^ pins the match to the first character and
\* $ to the last
isUUID(str) == MatchAt(str, 1, uuidRegex, TRUE) /\ Len(str) = Len(uuidRegex)

----------------------------------------------------------------------------
(* The structural policies: extractPageUUIDsFromXML and                    *)
(* extractPageUUIDsFromYAML.  A Set is a sequence without repetitions, in  *)
(* insertion order, as Array.from(set) lists it.                           *)

DamPrefix == <<"/", "d", "a", "m", "/", "j", "c", "r", ":">>
DamRunLength == 36

\* /\/dam\/jcr:([a-f0-9-]{36})/gi
damRegex == Literal(DamPrefix) \o Repeat(HexDashClass, DamRunLength)

\* String.prototype.match with the g flag: the matched substrings, found from
\* left to right, each search starting where the last match ended
RECURSIVE matchAllFrom(_, _, _)
matchAllFrom(text, p, pattern) ==
    IF p + Len(pattern) - 1 > Len(text) THEN <<>>
    ELSE IF MatchAt(text, p, pattern, TRUE)
    THEN <<SubSeq(text, p, p + Len(pattern) - 1)>>
            \o matchAllFrom(text, p + Len(pattern), pattern)
    ELSE matchAllFrom(text, p + 1, pattern)

\* String.prototype.replace(pat, '') with a string pattern: the first exact
\* occurrence of pat is removed
Replace(str, pat) ==
    LET i == IndexOf(str, pat)
    IN IF i = -1 THEN str
       ELSE SubSeq(str, 1, i) \o SubSeq(str, i + Len(pat) + 1, Len(str))

\* the mutant of SetAdd: an array push
SetAdd_push(set, x) == Append(set, x)

\* Set.prototype.add
SetAdd(set, x) == IF \E k \in 1..Len(set) : set[k] = x THEN set ELSE Append(set, x)

\* the mutant of damLoop: what is left of a match is added without the test
\* of its shape
RECURSIVE damLoop_noShapeTest(_, _, _)
damLoop_noShapeTest(damMatches, i, uuidSet) ==
    IF i > Len(damMatches) THEN uuidSet
    ELSE damLoop_noShapeTest(damMatches, i + 1,
                             SetAdd(uuidSet, Replace(damMatches[i], DamPrefix)))

\* for (const match of damMatches): the prefix is removed and what is left is
\* added when it has the identifier shape
RECURSIVE damLoop(_, _, _)
damLoop(damMatches, i, uuidSet) ==
    IF i > Len(damMatches) THEN uuidSet
    ELSE LET uuid == Replace(damMatches[i], DamPrefix)
         IN damLoop(damMatches, i + 1,
                    IF isUUID(uuid) THEN SetAdd(uuidSet, uuid) ELSE uuidSet)

\* the mutant of scanText: only the identifier shape is tested
scanText_shapeOnly(text, uuidSet) == IF isUUID(text) THEN SetAdd(uuidSet, text) ELSE uuidSet

\* the two tests every policy applies to a text: the identifier shape, then
\* the composite references
scanText(text, uuidSet) ==
    damLoop(matchAllFrom(text, 1, damRegex), 1,
            IF isUUID(text) THEN SetAdd(uuidSet, text) ELSE uuidSet)

\* an element of the page export: its tagName, the position of its parent
\* (0 for the Document), its textContent and the values of its attributes
SvValue == "sv:value"
PageElement(tagName, parent, textContent, attributes) ==
    [tagName |-> tagName, parent |-> parent,
     textContent |-> textContent, attributes |-> attributes]

RECURSIVE attributeLoop(_, _, _)
attributeLoop(attributes, i, uuidSet) ==
    IF i > Len(attributes) THEN uuidSet
    ELSE attributeLoop(attributes, i + 1,
            IF Truthy(attributes[i]) THEN scanText(attributes[i], uuidSet) ELSE uuidSet)

\* the body of the loop over allElements
scanElement(element, uuidSet) ==
    attributeLoop(element.attributes, 1,
        IF element.tagName = SvValue /\ Truthy(element.textContent)
        THEN scanText(Trim(element.textContent), uuidSet) ELSE uuidSet)

RECURSIVE elementLoop(_, _)
elementLoop(doc, n) ==
    IF n = 0 THEN <<>> ELSE scanElement(doc[n], elementLoop(doc, n - 1))

\* MagnoliaAssetChecker.extractPageUUIDsFromXML: the catch block returns []
extractPageUUIDsFromXML(file, fault) ==
    IF readFileFails(file, fault.at = "read") \/ fault.at = "parse" THEN Returned(<<>>)
    ELSE Returned(elementLoop(file.doc, Len(file.doc)))

\* what yaml.load gives: a string, another scalar, a list or a map
YamlString(value) == [type |-> "string", value |-> value]
YamlOther == [type |-> "other"]
YamlArray(items) == [type |-> "array", items |-> items]
YamlObject(entries) == [type |-> "object", entries |-> entries]
YamlFile(yamlData) == [kind |-> "yaml", yamlData |-> yamlData]

\* if (this._isUUID(key)) uuidSet.add(key)
scanKey(key, uuidSet) == IF isUUID(key) THEN SetAdd(uuidSet, key) ELSE uuidSet

\* MagnoliaAssetChecker._findUUIDsInObject
RECURSIVE findUUIDsInObject(_, _)
RECURSIVE itemLoop(_, _, _)
RECURSIVE entryLoop(_, _, _)
itemLoop(items, i, uuidSet) ==
    IF i > Len(items) THEN uuidSet
    ELSE itemLoop(items, i + 1, findUUIDsInObject(items[i], uuidSet))

entryLoop(entries, i, uuidSet) ==
    IF i > Len(entries) THEN uuidSet
    ELSE entryLoop(entries, i + 1,
            findUUIDsInObject(entries[i].value, scanKey(entries[i].key, uuidSet)))

findUUIDsInObject(obj, uuidSet) ==
    IF obj.type = "string" THEN scanText(obj.value, uuidSet)
    ELSE IF obj.type = "array" THEN itemLoop(obj.items, 1, uuidSet)
    ELSE IF obj.type = "object" THEN entryLoop(obj.entries, 1, uuidSet)
    ELSE uuidSet

\* MagnoliaAssetChecker.extractPageUUIDsFromYAML: the catch block returns []
extractPageUUIDsFromYAML(file, fault) ==
    IF readFileFails(file, fault.at = "read") \/ fault.at = "parse" THEN Returned(<<>>)
    ELSE Returned(findUUIDsInObject(file.yamlData, <<>>))

----------------------------------------------------------------------------
(* The core operations, each applied to inputs drawn from bounded sets *)

NoFiles == [p \in {} |-> NoFile]
NoRuns == [r \in {} |-> NoFile]
\* no page of the web front-end is open
NoPage == <<>>

\* identifiers and file names of the asset records given to analyzeAssets
MaxAssets == 3
U1 == <<"u1">>
U2 == <<"u2">>
U3 == <<"u3">>
RecordUuids == {U1, U2, NA, Undefined, Null, EmptyString}
RecordNames == {<<"a.png">>, <<"b.png">>}
Records == [fileName : RecordNames, uuid : RecordUuids, location : {<<"root">>}]

InitAnalyze ==
    /\ op = "analyzeAssets"
    /\ \E n \in 0..MaxAssets :
          \E assets \in [1..n -> Records], referencedUUIDs \in SUBSET {U1, U2, U3} :
              args = [assets |-> assets, referencedUUIDs |-> referencedUUIDs]
    /\ result = <<>>
    /\ done = FALSE
    /\ files = NoFiles
    /\ run = NoRuns
    /\ ui = NoPage

\* the mutant of CallAnalyzeAssets: the loop consumes the input list with
\* shift() instead of iterating over it
CallAnalyzeAssets_shift ==
    /\ op = "analyzeAssets" /\ ~done
    /\ result' = analyzeAssets(args.assets, args.referencedUUIDs)
    /\ done' = TRUE
    /\ args' = [args EXCEPT !.assets = <<>>]
    /\ UNCHANGED <<op, pipeVars, ui>>

CallAnalyzeAssets ==
    /\ op = "analyzeAssets" /\ ~done
    /\ result' = analyzeAssets(args.assets, args.referencedUUIDs)
    /\ done' = TRUE
    /\ UNCHANGED <<op, args, pipeVars, ui>>

NextAnalyze == CallAnalyzeAssets

SpecAnalyze == InitAnalyze /\ [][NextAnalyze]_vars

Analyzed == op = "analyzeAssets" /\ done

Uuids(list) == {list[i].uuid : i \in 1..Len(list)}

\* the position of the first record of the input that carries the identifier
FirstWith(assets, u) == CHOOSE i \in 1..Len(assets) :
    assets[i].uuid = u /\ \A j \in 1..(i - 1) : assets[j].uuid # u

----------------------------------------------------------------------------
(* findReferencedAssetUUIDs applied to page texts and candidate lists *)

MaxPageLen == 3
MaxCandidates == 2
PageSymbols == {"u1", "u2", "/dam/jcr:", " "}
Candidates == {U1, U2, <<"u1", "u2">>}

InitResolve ==
    /\ op = "findReferencedAssetUUIDs"
    /\ \E n \in 0..MaxPageLen, m \in 0..MaxCandidates :
          \E text \in [1..n -> PageSymbols], assetUUIDs \in [1..m -> Candidates],
             pageFile \in {"text", "none"}, ioError \in BOOLEAN :
              args = [pageFile |-> IF pageFile = "text" THEN TextFile(text) ELSE NoFile,
                      ioError |-> ioError,
                      assetUUIDs |-> assetUUIDs]
    /\ result = <<>>
    /\ done = FALSE
    /\ files = NoFiles
    /\ run = NoRuns
    /\ ui = NoPage

CallFindReferencedAssetUUIDs ==
    /\ op = "findReferencedAssetUUIDs" /\ ~done
    /\ result' = findReferencedAssetUUIDs(args.pageFile, args.ioError, args.assetUUIDs)
    /\ done' = TRUE
    /\ UNCHANGED <<op, args, pipeVars, ui>>

NextResolve == CallFindReferencedAssetUUIDs

SpecResolve == InitResolve /\ [][NextResolve]_vars

\* the combiner and the resolver, each called once on its arguments: what a
\* call leaves of the arguments it was given
InitInputs == InitAnalyze \/ InitResolve

NextInputs ==
    \/ CallAnalyzeAssets
    \/ CallFindReferencedAssetUUIDs

SpecInputs == InitInputs /\ [][NextInputs]_vars

Resolved == op = "findReferencedAssetUUIDs" /\ done /\ ~result.threw

\* uuid is a run of consecutive symbols of text
OccursIn(uuid, text) ==
    \E p \in 1..(Len(text) + 1) :
        /\ p + Len(uuid) - 1 <= Len(text)
        /\ \A k \in 1..Len(uuid) : text[p + k - 1] = uuid[k]

----------------------------------------------------------------------------
(* _isUUID applied to strings one or more edits away from an identifier *)

UuidA == <<"a", "1", "b", "2", "c", "3", "d", "4", "-", "e", "5", "f", "6", "-", "7", "8", "9", "0", "-", "a", "b", "c", "d", "-", "e", "f", "1", "2", "3", "4", "5", "6", "7", "8", "9", "0">>
UuidB == <<"0", "F", "9", "E", "8", "D", "7", "C", "-", "6", "B", "5", "A", "-", "4", "3", "2", "1", "-", "F", "E", "D", "C", "-", "B", "A", "0", "9", "8", "7", "6", "5", "4", "3", "2", "1">>

MaxEdits == 1
ShapeSeeds == {UuidA, UuidB, <<>>}
EditChars == {"7", "c", "E", "-", "g", "G", " "}

InitShape ==
    /\ op = "isUUID"
    /\ \E str \in ShapeSeeds : args = [str |-> str, edits |-> 0]
    /\ result = <<>>
    /\ done = FALSE
    /\ files = NoFiles
    /\ run = NoRuns
    /\ ui = NoPage

\* one character of the string is replaced, inserted or removed
EditString ==
    /\ op = "isUUID" /\ ~done
    /\ args.edits < MaxEdits
    /\ \E p \in 1..(Len(args.str) + 1), c \in EditChars, kind \in {"replace", "insert", "remove"} :
          /\ kind \in {"replace", "remove"} => p <= Len(args.str)
          /\ args' = [str |-> CASE kind = "replace" -> [args.str EXCEPT ![p] = c]
                                [] kind = "insert" ->
                                      SubSeq(args.str, 1, p - 1) \o <<c>>
                                          \o SubSeq(args.str, p, Len(args.str))
                                [] OTHER ->
                                      SubSeq(args.str, 1, p - 1)
                                          \o SubSeq(args.str, p + 1, Len(args.str)),
                      edits |-> args.edits + 1]
    /\ UNCHANGED <<op, result, done, pipeVars, ui>>

CallIsUUID ==
    /\ op = "isUUID" /\ ~done
    /\ result' = isUUID(args.str)
    /\ done' = TRUE
    /\ UNCHANGED <<op, args, pipeVars, ui>>

NextShape == EditString \/ CallIsUUID

SpecShape == InitShape /\ [][NextShape]_vars

----------------------------------------------------------------------------
(* Page exports for the structural policies.  The export under test grows  *)
(* by steps: a new element, list or map, or a piece of text put at the end *)
(* of the last value.                                                      *)

DamUpper == <<"/", "D", "A", "M", "/", "J", "C", "R", ":">>
\* 36 characters of [a-f0-9-] that do not have the identifier shape
NotId == <<"a", "1", "b", "2", "c", "3", "d", "4", "e", "5", "f", "6", "-", "7", "8", "9", "0", "-", "a", "b", "c", "d", "-", "e", "f", "1", "2", "3", "4", "5", "6", "7", "8", "9", "0", "-">>
PathTail == <<"/", "x">>
RefA == DamPrefix \o UuidA
RefB == DamPrefix \o UuidB
RefUpperA == DamUpper \o UuidA
RefNotId == DamPrefix \o NotId
Pieces == {UuidA, RefA, RefB, RefUpperA, RefNotId, PathTail, <<" ">>}
YamlKeys == {UuidA, RefB, RefUpperA, <<"k">>}

MaxStructureSteps == 3
StructuralFaults == {NoFault, [at |-> "read", k |-> 0], [at |-> "parse", k |-> 0]}

InitStructural ==
    /\ \/ op = "extractPageUUIDsFromXML"
          /\ args = [file |-> XmlFile(<<>>), fault |-> NoFault, steps |-> 0]
       \/ op = "extractPageUUIDsFromYAML"
          /\ args = [file |-> YamlFile(YamlString(<<>>)), fault |-> NoFault, steps |-> 0]
    /\ result = <<>>
    /\ done = FALSE
    /\ files = NoFiles
    /\ run = NoRuns
    /\ ui = NoPage

\* the XML export gains an element: an sv:value or another element with
\* text, or an element with one attribute; below the last element when that
\* is not an sv:value, or below the Document
AddPageElement ==
    /\ op = "extractPageUUIDsFromXML" /\ ~done
    /\ args.steps < MaxStructureSteps
    /\ LET doc == args.file.doc
       IN \E tagName \in {SvValue, SvProperty, "title"}, below \in {0, Len(doc)} :
             /\ below # 0 => doc[below].tagName # SvValue
             /\ args' = [args EXCEPT
                   !.file = XmlFile(Append(doc,
                       PageElement(tagName, below, <<>>,
                                   IF tagName = SvProperty THEN <<EmptyString>> ELSE <<>>))),
                   !.steps = @ + 1]
    /\ UNCHANGED <<op, result, done, pipeVars, ui>>

\* the last element's attribute value, or else its text, gains a piece
AppendPagePiece ==
    /\ op = "extractPageUUIDsFromXML" /\ ~done
    /\ args.steps < MaxStructureSteps
    /\ args.file.doc # <<>>
    /\ LET doc == args.file.doc
           last == Len(doc)
       IN \E piece \in Pieces :
             args' = [args EXCEPT
                 !.file = XmlFile(
                     IF doc[last].attributes # <<>>
                     THEN [doc EXCEPT ![last].attributes[1] = @ \o piece]
                     ELSE [doc EXCEPT ![last].textContent = @ \o piece]),
                 !.steps = @ + 1]
    /\ UNCHANGED <<op, result, done, pipeVars, ui>>

CallExtractPageUUIDsFromXML ==
    /\ op = "extractPageUUIDsFromXML" /\ ~done
    /\ \E fault \in StructuralFaults :
          /\ args' = [args EXCEPT !.fault = fault]
          /\ result' = extractPageUUIDsFromXML(args.file, fault)
    /\ done' = TRUE
    /\ UNCHANGED <<op, pipeVars, ui>>

\* the decoded YAML document grows: a string gains a piece; the document is
\* put into a list or, under a key, into a map; a list gains a string and a
\* map an entry
GrowYaml ==
    /\ op = "extractPageUUIDsFromYAML" /\ ~done
    /\ args.steps < MaxStructureSteps
    /\ LET obj == args.file.yamlData
       IN \E yamlData \in
                {YamlArray(<<obj>>)}
                    \cup {YamlObject(<<[key |-> key, value |-> obj]>>) : key \in YamlKeys}
                    \cup (IF obj.type = "string"
                          THEN {YamlString(obj.value \o piece) : piece \in Pieces} ELSE {})
                    \cup (IF obj.type = "array"
                          THEN {YamlArray(Append(obj.items, YamlString(piece))) : piece \in Pieces}
                          ELSE {})
                    \cup (IF obj.type = "object"
                          THEN {YamlObject(Append(obj.entries, [key |-> key, value |-> YamlOther])) :
                                   key \in YamlKeys}
                          ELSE {}) :
             args' = [args EXCEPT !.file = YamlFile(yamlData), !.steps = @ + 1]
    /\ UNCHANGED <<op, result, done, pipeVars, ui>>

CallExtractPageUUIDsFromYAML ==
    /\ op = "extractPageUUIDsFromYAML" /\ ~done
    /\ \E fault \in StructuralFaults :
          /\ args' = [args EXCEPT !.fault = fault]
          /\ result' = extractPageUUIDsFromYAML(args.file, fault)
    /\ done' = TRUE
    /\ UNCHANGED <<op, pipeVars, ui>>

NextStructural ==
    \/ AddPageElement
    \/ AppendPagePiece
    \/ CallExtractPageUUIDsFromXML
    \/ GrowYaml
    \/ CallExtractPageUUIDsFromYAML

SpecStructural == InitStructural /\ [][NextStructural]_vars

\* the call returned the identifiers of a document that was read and parsed
Discovered ==
    /\ op \in {"extractPageUUIDsFromXML", "extractPageUUIDsFromYAML"}
    /\ done /\ args.fault = NoFault

----------------------------------------------------------------------------
(* One page export under both policies.  The export is kept as it is       *)
(* written in the file: a root element and below it elements with a tag,   *)
(* at most one attribute and a content, the values in their raw spelling.  *)
(* fs.readFile gives the text of the file; DOMParser gives the elements    *)
(* with their values decoded.  Markup is one symbol of the text, a value   *)
(* one symbol for each character.                                          *)

WrittenElement(tagName, attributes, content) ==
    [tagName |-> tagName, attributes |-> attributes, content |-> content]

\* the text of the file
RECURSIVE WrittenText(_)
WrittenText(written) ==
    IF written = <<>> THEN <<>>
    ELSE LET el == Head(written)
             attr == IF el.attributes = <<>> THEN <<>>
                     ELSE <<" ", "sv:name", "=", "\"">> \o el.attributes[1] \o <<"\"">>
         IN <<"<", el.tagName>> \o attr \o <<">">> \o el.content
                \o <<"</", el.tagName, ">">> \o WrittenText(Tail(written))

readFile(written) == <<"<", "root", ">">> \o WrittenText(written) \o <<"</", "root", ">">>

\* the character an entity or character reference stands for
EntityChar(name) ==
    CASE name = <<"#", "4", "5">> -> "-"
      [] name = <<"a", "m", "p">> -> "&"

\* pat is written in raw from position p on
StartsAt(raw, p, pat) ==
    /\ p + Len(pat) - 1 <= Len(raw)
    /\ \A k \in 1..Len(pat) : raw[p + k - 1] = pat[k]

\* the first position from p where pat starts in raw
NextAt(raw, p, pat) ==
    CHOOSE q \in p..Len(raw) :
        StartsAt(raw, q, pat) /\ \A j \in p..(q - 1) : ~StartsAt(raw, j, pat)

CommentOpen == <<"<", "!", "-", "-">>
CommentClose == <<"-", "-", ">">>

\* the value of a raw spelling: references are replaced by their character,
\* comments are no part of textContent, the characters between them are
\* taken over as they are
RECURSIVE Decode(_, _)
Decode(raw, p) ==
    IF p > Len(raw) THEN <<>>
    ELSE IF raw[p] = "&"
    THEN LET q == NextAt(raw, p, <<";">>)
         IN <<EntityChar(SubSeq(raw, p + 1, q - 1))>> \o Decode(raw, q + 1)
    ELSE IF StartsAt(raw, p, CommentOpen)
    THEN Decode(raw, NextAt(raw, p + 4, CommentClose) + 3)
    ELSE LET stops == {q \in p..Len(raw) :
                          raw[q] = "&" \/ StartsAt(raw, q, CommentOpen)}
             q == IF stops = {} THEN Len(raw) + 1
                  ELSE CHOOSE s \in stops : \A j \in stops : s <= j
         IN SubSeq(raw, p, q - 1) \o Decode(raw, q)

RECURSIVE TextContentOf(_)
TextContentOf(written) ==
    IF written = <<>> THEN <<>>
    ELSE Decode(Head(written).content, 1) \o TextContentOf(Tail(written))

\* DOMParser.parseFromString, then _getAllElements: the elements in
\* document order, the root first
parseFromString(written) ==
    <<PageElement("root", 0, TextContentOf(written), <<>>)>>
        \o [i \in 1..Len(written) |->
               PageElement(written[i].tagName, 1, Decode(written[i].content, 1),
                           [k \in 1..Len(written[i].attributes) |->
                               Decode(written[i].attributes[k], 1)])]

\* the structural XML policy followed by the combiner
structuralPolicy(written, assets) ==
    analyzeAssets(assets,
        SeqToSet(extractPageUUIDsFromXML(XmlFile(parseFromString(written)), NoFault).value))

\* the raw-text policy followed by the combiner, as POST /analyze and the
\* CLI call them
rawTextPolicy(written, assets) ==
    analyzeAssets(assets,
        findReferencedAssetUUIDs(TextFile(readFile(written)), FALSE, MapUuid(assets)).value)

UuidAEscaped == SubSeq(UuidA, 1, 8) \o <<"&", "#", "4", "5", ";">> \o SubSeq(UuidA, 10, 36)
UuidBCommented == SubSeq(UuidB, 1, 4) \o CommentOpen \o <<"x">> \o CommentClose \o SubSeq(UuidB, 5, 36)
RawPieces == {UuidA, UuidB, UuidAEscaped, UuidBCommented, RefA, <<" ">>}
PolicyRecords == [fileName : {<<"a.png">>}, uuid : {UuidA, UuidB}, location : {<<"root">>}]

MaxPolicySteps == 3
MaxPolicyAssets == 2

InitPolicies ==
    /\ op = "policies"
    /\ args = [written |-> <<>>, assets |-> <<>>, steps |-> 0]
    /\ result = <<>>
    /\ done = FALSE
    /\ files = NoFiles
    /\ run = NoRuns
    /\ ui = NoPage

\* the export gains an element: an sv:value or a title with a content, or
\* an sv:property with an attribute
WriteElement ==
    /\ op = "policies" /\ ~done
    /\ args.steps < MaxPolicySteps
    /\ \E tagName \in {SvValue, SvProperty, "title"} :
          args' = [args EXCEPT
              !.written = Append(@, WrittenElement(tagName,
                              IF tagName = SvProperty THEN <<EmptyString>> ELSE <<>>, <<>>)),
              !.steps = @ + 1]
    /\ UNCHANGED <<op, result, done, pipeVars, ui>>

\* the attribute of the last element, or else its content, gains a piece;
\* a comment cannot be written inside an attribute value
WritePiece ==
    /\ op = "policies" /\ ~done
    /\ args.steps < MaxPolicySteps
    /\ args.written # <<>>
    /\ LET last == Len(args.written)
       IN \E piece \in RawPieces :
             /\ args.written[last].attributes # <<>> => piece # UuidBCommented
             /\ args' = [args EXCEPT
                   !.written =
                       IF @[last].attributes # <<>>
                       THEN [@ EXCEPT ![last].attributes[1] = @ \o piece]
                       ELSE [@ EXCEPT ![last].content = @ \o piece],
                   !.steps = @ + 1]
    /\ UNCHANGED <<op, result, done, pipeVars, ui>>

CallPolicies ==
    /\ op = "policies" /\ ~done
    /\ \E n \in 0..MaxPolicyAssets :
          \E assets \in [1..n -> PolicyRecords] :
              /\ args' = [args EXCEPT !.assets = assets]
              /\ result' = [structural |-> structuralPolicy(args.written, assets),
                            rawText |-> rawTextPolicy(args.written, assets)]
    /\ done' = TRUE
    /\ UNCHANGED <<op, pipeVars, ui>>

NextPolicies ==
    \/ WriteElement
    \/ WritePiece
    \/ CallPolicies

SpecPolicies == InitPolicies /\ [][NextPolicies]_vars

----------------------------------------------------------------------------
(* DAM exports.  The export under test grows by fragments, each put below  *)
(* an open sv:node (one on the path from the root to the last element); it *)
(* may be handed to the extractor at any size.  A fragment is a sequence   *)
(* of elements whose parent is 0 for the place of attachment, or the       *)
(* position of an element of the fragment.                                 *)

NodeFrag(name) == <<Element(SvNode, 0, name, <<>>)>>
PropFrag(name, values) == <<Element(SvProperty, 0, name, values)>>
ContentFrag(fileName) ==
    <<Element(SvNode, 0, JcrContent, <<>>), Element(SvProperty, 1, FileNameProp, <<fileName>>)>>
AssetFrag(name, uuid) ==
    <<Element(SvNode, 0, name, <<>>),
      Element(SvProperty, 1, JcrPrimaryType, <<MgnlAsset>>),
      Element(SvProperty, 1, JcrUuid, <<uuid>>)>>

Attach(doc, frag, at) ==
    doc \o [k \in 1..Len(frag) |->
                [frag[k] EXCEPT !.parent = IF @ = 0 THEN at ELSE Len(doc) + @]]

RECURSIVE OpenNodesFrom(_, _)
OpenNodesFrom(doc, i) ==
    IF i = 0 THEN {}
    ELSE (IF doc[i].tag = SvNode THEN {i} ELSE {}) \cup OpenNodesFrom(doc, doc[i].parent)

AttachPoints(doc) == IF doc = <<>> THEN {0} ELSE OpenNodesFrom(doc, Len(doc))

\* the faults of one call on a document
Faults(doc) ==
    {NoFault, [at |-> "read", k |-> 0], [at |-> "parse", k |-> 0]}
        \cup {[at |-> "loop", k |-> k] : k \in 1..Len(doc)}

MaxFrags == 4
F1 == <<"one.png">>
F2 == <<"two.png">>
ExtractFrags ==
    {NodeFrag(<<"logo">>), ContentFrag(F2),
     PropFrag(JcrPrimaryType, <<MgnlAsset>>),
     PropFrag(JcrPrimaryType, <<<<"mgnl:folder">>>>),
     PropFrag(JcrPrimaryType, <<MgnlResource>>),
     PropFrag(JcrUuid, <<U1>>), PropFrag(JcrUuid, <<<<" ", "u2", " ">>>>),
     PropFrag(JcrUuid, <<<<" ">>>>), PropFrag(JcrUuid, <<>>),
     PropFrag(FileNameProp, <<F1>>)}

InitExtract ==
    /\ op = "extractAssetsFromXml"
    /\ args = [file |-> XmlFile(<<>>), fault |-> NoFault, frags |-> 0]
    /\ result = <<>>
    /\ done = FALSE
    /\ files = NoFiles
    /\ run = NoRuns
    /\ ui = NoPage

\* the export gains one fragment
GrowExport(frags, maxFrags) ==
    /\ op = "extractAssetsFromXml" /\ ~done
    /\ args.frags < maxFrags
    /\ \E f \in frags, at \in AttachPoints(args.file.doc) :
          args' = [args EXCEPT !.file = XmlFile(Attach(args.file.doc, f, at)),
                               !.frags = @ + 1]
    /\ UNCHANGED <<op, result, done, pipeVars, ui>>

CallExtractAssetsFromXml(faults) ==
    /\ op = "extractAssetsFromXml" /\ ~done
    /\ \E fault \in faults :
          /\ args' = [args EXCEPT !.fault = fault]
          /\ result' = extractAssetsFromXml(args.file, fault)
    /\ done' = TRUE
    /\ UNCHANGED <<op, pipeVars, ui>>

NextExtract ==
    \/ GrowExport(ExtractFrags, MaxFrags)
    \/ CallExtractAssetsFromXml(Faults(args.file.doc))

SpecExtract == InitExtract /\ [][NextExtract]_vars

Extracted == op = "extractAssetsFromXml" /\ done

\* the same operation on folder trees that hold complete asset nodes
MaxLocationFrags == 4
LocationFrags ==
    {NodeFrag(<<>>), NodeFrag(<<"images">>), NodeFrag(<<"2024">>), NodeFrag(<<"banners">>),
     AssetFrag(<<"logo.png">>, U1)}

NextLocation ==
    \/ GrowExport(LocationFrags, MaxLocationFrags)
    \/ CallExtractAssetsFromXml({NoFault})

SpecLocation == InitExtract /\ [][NextLocation]_vars

\* the same operation on asset nodes that gain fileName properties and
\* jcr:content sub-nodes in any order
MaxFileNameFrags == 4
FileNameFrags ==
    {AssetFrag(<<"logo">>, U1), ContentFrag(F2), ContentFrag(<<" ">>),
     PropFrag(FileNameProp, <<F1>>), PropFrag(FileNameProp, <<<<" ">>>>)}

NextFileName ==
    \/ GrowExport(FileNameFrags, MaxFileNameFrags)
    \/ CallExtractAssetsFromXml({NoFault})

SpecFileName == InitExtract /\ [][NextFileName]_vars

----------------------------------------------------------------------------
(* The pipeline: POST /analyze (web-server.js) and main of the checker CLI. *)
(* A run is one request or one CLI invocation.  Each action is the code     *)
(* between two awaits.                                                      *)

NumRuns == 2
NumSuffixes == 2
Runs == 1..NumRuns
Suffixes == 1..NumSuffixes

\* multer's storage.filename: fieldname + '-' + uniqueSuffix + extension
UploadPath(fieldname, uniqueSuffix) == <<"uploads", fieldname, uniqueSuffix>>
\* path.resolve of the CLI's --assets and --pages options
CliPath(option, r) == <<"cli", option, r>>
NoPath == <<>>

Paths ==
    {UploadPath(f, n) : f \in {"assetFile", "pageFile"}, n \in Suffixes}
        \cup {CliPath(o, r) : o \in {"assets", "pages"}, r \in Runs}

NoAnalysis == [allAssets |-> <<>>, referencedAssets |-> <<>>, unusedAssets |-> <<>>]
NoResponse == [status |-> 0, assets |-> NoAnalysis]

Idle ==
    [kind |-> "none", pc |-> "idle",
     assetFile |-> NoPath, pageFile |-> NoPath,
     given |-> [doc |-> <<>>, text |-> <<>>],
     assetReadFailed |-> FALSE,
     pageReadFailed |-> FALSE,
     pageIoError |-> FALSE,
     assets |-> <<>>, assetUUIDs |-> <<>>, referencedUUIDs |-> {},
     analysis |-> NoAnalysis,
     toUnlink |-> <<>>,
     assetName |-> <<>>, pageName |-> <<>>,
     entered |-> FALSE,
     sent |-> 0,
     response |-> NoResponse]

InitPipeline ==
    /\ op = "none"
    /\ args = <<>>
    /\ result = <<>>
    /\ done = FALSE
    /\ files = [p \in Paths |-> NoFile]
    /\ run = [r \in Runs |-> Idle]
    /\ ui = NoPage

\* the exports of a run: a DAM export with one asset node per identifier
\* text, below one folder, and a page text
MaxPipelineAssets == 3
MaxPipelinePageLen == 2
PipelineIds == {U1, U2, U3, <<" ">>}
PipelineSymbols == {"u1", "u2", "u3"}

RECURSIVE FlatDocFrom(_, _)
FlatDocFrom(doc, ids) ==
    IF ids = <<>> THEN doc
    ELSE FlatDocFrom(Attach(doc, AssetFrag(<<"asset">>, Head(ids)), 1), Tail(ids))

FlatDoc(ids) == FlatDocFrom(NodeFrag(<<"dam">>), ids)

\* fs.unlink: the file is gone afterwards (an error is caught by the caller)
unlink(fs, path) == [fs EXCEPT ![path] = NoFile]

\* String.prototype.toLowerCase
toLowerCase(str) == [k \in 1..Len(str) |-> Lower(str[k])]

\* path.extname of a file name without directories: from the last dot to
\* the end; empty when there is no dot or the only dot is the first character
LastDot(name) ==
    LET dots == {k \in 1..Len(name) : name[k] = "."}
    IN IF dots = {} THEN 0 ELSE CHOOSE k \in dots : \A j \in dots : j <= k

extname(name) ==
    IF LastDot(name) <= 1 THEN EmptyString ELSE SubSeq(name, LastDot(name), Len(name))

ExtXml == <<".", "x", "m", "l">>
ExtYaml == <<".", "y", "a", "m", "l">>
ExtYml == <<".", "y", "m", "l">>
allowedTypes == {ExtXml, ExtYaml, ExtYml}

\* the error a fileFilter or a limit of multer passes on, or none
NoError == [multer |-> FALSE, code |-> "none", message |-> "none"]
Error(message) == [multer |-> FALSE, code |-> "none", message |-> message]
MulterError(code) == [multer |-> TRUE, code |-> code, message |-> code]

\* the mutant of fileFilter: one list of extensions for both fields
fileFilter_oneList(fieldname, originalname) ==
    IF toLowerCase(extname(originalname)) \notin allowedTypes
    THEN Error(IF fieldname = "assetFile" THEN "Asset file must be XML"
               ELSE "Page file must be XML or YAML")
    ELSE NoError

\* multer's fileFilter: the error it calls back with, NoError for cb(null, true)
fileFilter(fieldname, originalname) ==
    LET ext == toLowerCase(extname(originalname))
    IN IF fieldname = "assetFile" /\ ext # ExtXml THEN Error("Asset file must be XML")
       ELSE IF fieldname = "pageFile" /\ ext \notin allowedTypes
       THEN Error("Page file must be XML or YAML")
       ELSE NoError

\* handleMulterError: the status it answers with, or 0 for next(err), which
\* leaves the request to the error handler of Express
handleMulterError(err) ==
    IF err.multer
    THEN IF err.code = "LIMIT_FILE_SIZE" THEN 413 ELSE 400
    ELSE IF err.message \in {"File too large", "LIMIT_FILE_SIZE"} THEN 413
    ELSE 0

\* the error handler of Express answers 500 to an error without a status
ExpressErrorStatus == 500

\* multer takes the files of the request, the asset file first: each passes
\* the fileFilter and is stored under a suffix made of the clock and a
\* random number, unless it exceeds limits.fileSize.  On an error multer
\* removes what it stored and the request ends in handleMulterError or in
\* the error handler of Express.  Otherwise the handler is entered and,
\* when a file is missing, answers 400; otherwise it awaits the extraction.
UploadOf(r, suffixes, idLists, texts, assetNames, pageNames, sizes) ==
    /\ run[r].pc = "idle"
    /\ \E ids \in idLists, text \in texts,
          hasAsset \in BOOLEAN, hasPage \in BOOLEAN,
          assetSuffix \in suffixes, pageSuffix \in suffixes,
          assetName \in assetNames, pageName \in pageNames, size \in sizes :
          LET assetPath == IF hasAsset THEN UploadPath("assetFile", assetSuffix) ELSE NoPath
              pagePath == IF hasPage THEN UploadPath("pageFile", pageSuffix) ELSE NoPath
              stored == [p \in Paths |->
                            IF p = assetPath THEN XmlFile(FlatDoc(ids))
                            ELSE IF p = pagePath THEN TextFile(text)
                            ELSE files[p]]
              assetError == IF hasAsset THEN fileFilter("assetFile", assetName) ELSE NoError
              pageError == IF hasPage THEN fileFilter("pageFile", pageName) ELSE NoError
              err == IF assetError # NoError THEN assetError
                     ELSE IF pageError # NoError THEN pageError
                     ELSE IF (hasAsset \/ hasPage) /\ size = "large"
                     THEN MulterError("LIMIT_FILE_SIZE")
                     ELSE NoError
              named == [run[r] EXCEPT !.kind = "web",
                                      !.assetName = IF hasAsset THEN assetName ELSE <<>>,
                                      !.pageName = IF hasPage THEN pageName ELSE <<>>]
          IN IF err # NoError
             THEN /\ files' = files
                  /\ run' = [run EXCEPT ![r] =
                        [named EXCEPT
                            !.pc = "done",
                            !.sent = @ + 1,
                            !.response =
                                [NoResponse EXCEPT !.status =
                                    IF handleMulterError(err) # 0 THEN handleMulterError(err)
                                    ELSE ExpressErrorStatus]]]
             ELSE /\ files' = stored
                  /\ run' = [run EXCEPT ![r] =
                        [named EXCEPT
                            !.entered = TRUE,
                            !.assetFile = assetPath,
                            !.pageFile = pagePath,
                            !.given = [doc |-> IF hasAsset THEN FlatDoc(ids) ELSE <<>>,
                                       text |-> IF hasPage THEN text ELSE <<>>],
                            !.pc = IF hasAsset /\ hasPage THEN "extract" ELSE "done",
                            !.sent = IF hasAsset /\ hasPage THEN @ ELSE @ + 1,
                            !.response = IF hasAsset /\ hasPage THEN NoResponse
                                         ELSE [NoResponse EXCEPT !.status = 400]]]
    /\ UNCHANGED <<coreVars, ui>>

PipelineIdLists == UNION {[1..n -> PipelineIds] : n \in 0..MaxPipelineAssets}
PipelineTexts == UNION {[1..m -> PipelineSymbols] : m \in 0..MaxPipelinePageLen}

\* the names of the uploaded files
AssetXml == <<"a", ".", "x", "m", "l">>
PageXml == <<"p", ".", "x", "m", "l">>

Upload(r, suffixes) ==
    UploadOf(r, suffixes, PipelineIdLists, PipelineTexts, {AssetXml}, {PageXml}, {"ok"})

\* main of the CLI up to the first await of the extraction: fs.access on
\* both files and the checks of the extensions, each ending in exit(1)
MainStart(r) ==
    /\ run[r].pc = "idle"
    /\ \E n \in 0..MaxPipelineAssets, m \in 0..MaxPipelinePageLen :
       \E ids \in [1..n -> PipelineIds], text \in [1..m -> PipelineSymbols],
          hasAsset \in BOOLEAN, hasPage \in BOOLEAN,
          assetExt \in {".xml", ".json"}, pageExt \in {".xml", ".yaml", ".yml", ".txt"} :
          LET assetPath == CliPath("assets", r)
              pagePath == CliPath("pages", r)
              accepted == /\ hasAsset /\ hasPage
                          /\ assetExt = ".xml"
                          /\ pageExt \in {".xml", ".yaml", ".yml"}
          IN /\ files' = [files EXCEPT
                    ![assetPath] = IF hasAsset THEN XmlFile(FlatDoc(ids)) ELSE NoFile,
                    ![pagePath] = IF hasPage THEN TextFile(text) ELSE NoFile]
             /\ run' = [run EXCEPT ![r] =
                    [@ EXCEPT !.kind = "cli",
                              !.assetFile = assetPath,
                              !.pageFile = pagePath,
                              !.given = [doc |-> IF hasAsset THEN FlatDoc(ids) ELSE <<>>,
                                         text |-> IF hasPage THEN text ELSE <<>>],
                              !.pc = IF accepted THEN "extract" ELSE "done",
                              !.response = IF accepted THEN NoResponse
                                           ELSE [NoResponse EXCEPT !.status = 1]]]
    /\ UNCHANGED <<coreVars, ui>>

\* checker.extractAssetsFromXml settles; assetUUIDs is mapped from the
\* assets and findReferencedAssetUUIDs is awaited
ExtractStep(r) ==
    /\ run[r].pc = "extract"
    /\ \E fault \in {NoFault, [at |-> "read", k |-> 0], [at |-> "parse", k |-> 0]} :
          LET assets == checkerExtractAssetsFromXml(files[run[r].assetFile], fault).value
          IN run' = [run EXCEPT ![r] =
                [@ EXCEPT !.assetReadFailed = fault # NoFault,
                          !.assets = assets,
                          !.assetUUIDs = MapUuid(assets),
                          !.pc = "find"]]
    /\ UNCHANGED <<coreVars, files, ui>>

\* findReferencedAssetUUIDs settles.  When it returned, analyzeAssets runs;
\* the request then awaits the first unlink, and the CLI the reports.  When
\* it threw, the request goes to its catch block and the CLI to exit(1).
FindStep(r) ==
    /\ run[r].pc = "find"
    /\ \E ioError \in BOOLEAN :
          LET referenced ==
                  findReferencedAssetUUIDs(files[run[r].pageFile], ioError, run[r].assetUUIDs)
          IN run' = [run EXCEPT ![r] =
                IF referenced.threw
                THEN [@ EXCEPT !.pageReadFailed = TRUE,
                               !.pageIoError = ioError,
                               !.toUnlink = <<run[r].assetFile, run[r].pageFile>>,
                               !.pc = IF run[r].kind = "web" THEN "cleanup" ELSE "done",
                               !.response = IF run[r].kind = "web" THEN @
                                            ELSE [NoResponse EXCEPT !.status = 1]]
                ELSE [@ EXCEPT !.referencedUUIDs = referenced.value,
                               !.analysis = analyzeAssets(run[r].assets, referenced.value),
                               !.pc = IF run[r].kind = "web" THEN "unlinkAsset" ELSE "report"]]
    /\ UNCHANGED <<coreVars, files, ui>>

\* await fs.unlink(assetFile.path).catch(console.error)
UnlinkAssetStep(r) ==
    /\ run[r].pc = "unlinkAsset"
    /\ files' = unlink(files, run[r].assetFile)
    /\ run' = [run EXCEPT ![r] = [@ EXCEPT !.pc = "unlinkPage"]]
    /\ UNCHANGED <<coreVars, ui>>

\* await fs.unlink(pageFile.path).catch(console.error), then res.json
UnlinkPageStep(r) ==
    /\ run[r].pc = "unlinkPage"
    /\ files' = unlink(files, run[r].pageFile)
    /\ run' = [run EXCEPT ![r] =
            [@ EXCEPT !.pc = "done",
                      !.sent = @ + 1,
                      !.response = [status |-> 200, assets |-> run[r].analysis]]]
    /\ UNCHANGED <<coreVars, ui>>

\* the mutant of CleanupStep: the catch block ends without an answer
CleanupStep_noResponse(r) ==
    /\ run[r].pc = "cleanup"
    /\ run[r].toUnlink # <<>>
    /\ files' = unlink(files, Head(run[r].toUnlink))
    /\ run' = [run EXCEPT ![r] =
            IF Len(run[r].toUnlink) = 1
            THEN [@ EXCEPT !.toUnlink = <<>>, !.pc = "done"]
            ELSE [@ EXCEPT !.toUnlink = Tail(@)]]
    /\ UNCHANGED <<coreVars, ui>>

\* the catch block of the handler: one unlink per uploaded file, then 500
CleanupStep(r) ==
    /\ run[r].pc = "cleanup"
    /\ run[r].toUnlink # <<>>
    /\ files' = unlink(files, Head(run[r].toUnlink))
    /\ run' = [run EXCEPT ![r] =
            IF Len(run[r].toUnlink) = 1
            THEN [@ EXCEPT !.toUnlink = <<>>,
                           !.pc = "done",
                           !.sent = @ + 1,
                           !.response = [NoResponse EXCEPT !.status = 500]]
            ELSE [@ EXCEPT !.toUnlink = Tail(@)]]
    /\ UNCHANGED <<coreVars, ui>>

\* the three writeResults of the CLI: the report lists, then a normal exit
ReportStep(r) ==
    /\ run[r].pc = "report"
    /\ run' = [run EXCEPT ![r] =
            [@ EXCEPT !.pc = "done",
                      !.response = [status |-> 0, assets |-> run[r].analysis]]]
    /\ UNCHANGED <<coreVars, files, ui>>

RunStep(r, suffixes) ==
    \/ Upload(r, suffixes)
    \/ MainStart(r)
    \/ ExtractStep(r)
    \/ FindStep(r)
    \/ UnlinkAssetStep(r)
    \/ UnlinkPageStep(r)
    \/ CleanupStep(r)
    \/ ReportStep(r)

\* one run at a time; with no other upload every suffix gives the same run
NextPipeline == RunStep(1, {1})

SpecPipeline == InitPipeline /\ [][NextPipeline]_vars

\* several requests to POST /analyze at once: between two awaits of one
\* request any other request may take a step, and two uploads may be given
\* the same suffix by the clock and the random number
ConcurrentIdLists == {<<U1>>, <<U2>>}
ConcurrentTexts == {<<>>, <<"u1">>}

RequestStep(r) ==
    \/ UploadOf(r, Suffixes, ConcurrentIdLists, ConcurrentTexts, {AssetXml}, {PageXml}, {"ok"})
    \/ ExtractStep(r)
    \/ FindStep(r)
    \/ UnlinkAssetStep(r)
    \/ UnlinkPageStep(r)
    \/ CleanupStep(r)

NextConcurrent == \E r \in Runs : RequestStep(r)

SpecConcurrent == InitPipeline /\ [][NextConcurrent]_vars

\* one request to POST /analyze from the upload to the answer, with files of
\* any name and size.  Every await of the handler settles: the promises of
\* fs resolve or reject, so a step that can be taken is taken in the end.
NameXmlUpper == <<"a", ".", "X", "M", "L">>
NameYaml == <<"a", ".", "y", "a", "m", "l">>
NameYmlMixed == <<"p", ".", "Y", "m", "l">>
NameTxt == <<"p", ".", "t", "x", "t">>
NameXmlTxt == <<"a", ".", "x", "m", "l", ".", "t", "x", "t">>
NameNoDot == <<"x", "m", "l">>
NameDotFile == <<".", "y", "m", "l">>
HandlerAssetNames == {AssetXml, NameXmlUpper, NameYaml, NameXmlTxt, NameNoDot}
HandlerPageNames == {PageXml, NameYmlMixed, NameYaml, NameTxt, NameDotFile}
HandlerIdLists == {<<>>, <<U1>>, <<U1, U2>>}
HandlerTexts == {<<>>, <<"u1">>}

NextHandler ==
    \/ UploadOf(1, {1}, HandlerIdLists, HandlerTexts,
                HandlerAssetNames, HandlerPageNames, {"ok", "large"})
    \/ ExtractStep(1)
    \/ FindStep(1)
    \/ UnlinkAssetStep(1)
    \/ UnlinkPageStep(1)
    \/ CleanupStep(1)

\* no fairness for the upload: a request need not arrive
SpecHandler ==
    /\ InitPipeline /\ [][NextHandler]_vars
    /\ WF_vars(ExtractStep(1)) /\ WF_vars(FindStep(1))
    /\ WF_vars(UnlinkAssetStep(1)) /\ WF_vars(UnlinkPageStep(1))
    /\ WF_vars(CleanupStep(1))

\* the run ended with a result: the 200 response or the reports of the CLI
Succeeded(r) ==
    /\ run[r].pc = "done"
    /\ \/ run[r].kind = "web" /\ run[r].response.status = 200
       \/ run[r].kind = "cli" /\ run[r].response.status = 0

----------------------------------------------------------------------------
(* The web front-end (public/app.js): the page with its two file inputs,   *)
(* the analyze button, the loading, error and results elements, and the    *)
(* global analysisResults.  An element is shown when its classList holds   *)
(* 'show'.  Each action is one event handler, or the part of the async     *)
(* submit handler between two awaits.                                      *)

maxSize == 200 * 1024 * 1024

File(size) == [size |-> size]
FileSizes == {0, maxSize - 1, maxSize, maxSize + 1}
\* what input.files may hold: nothing, one file, or several files
FileLists ==
    {<<>>} \cup {<<File(n)>> : n \in FileSizes} \cup {<<File(maxSize + 1), File(0)>>}

\* the answers of POST /analyze: the lists, an error as JSON, or the error
\* page of Express, which is not JSON
NoAssets == <<>>
Response(status, json, error, assets) ==
    [status |-> status, json |-> json, error |-> error, assets |-> assets]
Lists1 == <<<<U1, U2>>, <<U1>>, <<U2>>>>
Lists2 == <<<<U3>>, <<>>, <<U3>>>>
Responses ==
    {Response(200, TRUE, "", Lists1),
     Response(200, TRUE, "", Lists2),
     Response(400, TRUE, "Both asset file and page file are required", NoAssets),
     Response(413, TRUE, "File too large. Maximum size is 200MB per file.", NoAssets),
     Response(500, TRUE, "", NoAssets),
     Response(500, FALSE, "", NoAssets)}

\* response.ok
ok(response) == response.status \in 200..299

\* let analysisResults = null
NullResults == Response(0, FALSE, "", NoAssets)
NoDownload == [filename |-> <<>>, format |-> "", data |-> <<>>, source |-> NullResults]
NoRequest == [pc |-> "none", response |-> NullResults]

MaxSubmissions == 2

\* the page as loaded
LoadedPage(disabled) ==
    [assetFiles |-> <<>>, pageFiles |-> <<>>,
     assetFileInfo |-> FALSE, pageFileInfo |-> FALSE,
     dragover |-> {},
     checked |-> FALSE,
     disabled |-> disabled, label |-> "analyze", background |-> "",
     loading |-> FALSE, error |-> FALSE, errorText |-> "", results |-> FALSE,
     displayed |-> NullResults,
     analysisResults |-> NullResults,
     requests |-> [id \in 1..MaxSubmissions |-> NoRequest],
     submitted |-> 0, succeeded |-> 0,
     alert |-> "", download |-> NoDownload]

\* handleFileSelect: the info of the input is shown when a file is selected
handleFileSelect(u, field) ==
    IF field = "asset" THEN [u EXCEPT !.assetFileInfo = Len(u.assetFiles) > 0]
    ELSE [u EXCEPT !.pageFileInfo = Len(u.pageFiles) > 0]

\* the mutant of withinLimit: a file of exactly maxSize is refused
withinLimit_strict(size) == size < maxSize

\* files[0].size <= maxSize
withinLimit(size) == size <= maxSize

checkFormValidity(u) ==
    LET hasAssetFile == Len(u.assetFiles) > 0
        hasPageFile == Len(u.pageFiles) > 0
        assetFileValid == ~hasAssetFile \/ withinLimit(u.assetFiles[1].size)
        pageFileValid == ~hasPageFile \/ withinLimit(u.pageFiles[1].size)
        allValid == hasAssetFile /\ hasPageFile /\ assetFileValid /\ pageFileValid
    IN [u EXCEPT
          !.checked = TRUE,
          !.disabled = ~allValid,
          !.label = IF hasAssetFile /\ hasPageFile /\ (~assetFileValid \/ ~pageFileValid)
                    THEN "tooLarge" ELSE "analyze",
          !.background =
              IF hasAssetFile /\ hasPageFile /\ (~assetFileValid \/ ~pageFileValid)
              THEN "#dc3545" ELSE IF allValid THEN "#28a745" ELSE "#6c757d"]

\* the change handler of an input, run on the files the input holds
onChange(u, field) == checkFormValidity(handleFileSelect(u, field))

setFiles(u, field, fileList) ==
    IF field = "asset" THEN [u EXCEPT !.assetFiles = fileList]
    ELSE [u EXCEPT !.pageFiles = fileList]

showLoading(u) == [u EXCEPT !.loading = TRUE]
hideLoading(u) == [u EXCEPT !.loading = FALSE]
showError(u, message) == [u EXCEPT !.errorText = message, !.error = TRUE]
hideError(u) == [u EXCEPT !.error = FALSE]
showResults(u) == [u EXCEPT !.results = TRUE]
hideResults(u) == [u EXCEPT !.results = FALSE]

\* displayResults: the summary and the lists are written, the results shown
displayResults(u, data) == showResults([u EXCEPT !.displayed = data])

\* the mutant of afterJson: the result is kept before response.ok is tested
afterJson_keepFirst(u, response) ==
    IF ~response.json THEN hideLoading(showError(u, "SyntaxError"))
    ELSE IF ~ok(response)
    THEN hideLoading(showError([u EXCEPT !.analysisResults = response],
            IF response.status = 413
            THEN "File too large. Please use files smaller than 200MB."
            ELSE IF response.error # "" THEN response.error ELSE "Analysis failed"))
    ELSE hideLoading(displayResults(
            [u EXCEPT !.analysisResults = response, !.succeeded = @ + 1], response))

\* the submit handler once response.json() has settled: a body that is not
\* JSON makes it throw; an answer that is not ok is thrown as an Error; else
\* the result is kept and displayed.  The finally block hides the loading.
\* What is kept is the parsed body; it is written here together with the
\* status of the response it came with.
afterJson(u, response) ==
    IF ~response.json THEN hideLoading(showError(u, "SyntaxError"))
    ELSE IF ~ok(response)
    THEN hideLoading(showError(u,
            IF response.status = 413
            THEN "File too large. Please use files smaller than 200MB."
            ELSE IF response.error # "" THEN response.error ELSE "Analysis failed"))
    ELSE hideLoading(displayResults(
            [u EXCEPT !.analysisResults = response, !.succeeded = @ + 1], response))

\* downloadResults: the file made from analysisResults, or an alert
downloadResults(u, type, format) ==
    IF u.analysisResults = NullResults
    THEN [u EXCEPT !.alert = "No analysis results available"]
    ELSE IF type \notin {"all", "unused", "referenced"}
    THEN [u EXCEPT !.alert = "Invalid download type"]
    ELSE IF format \notin {"json", "csv"}
    THEN [u EXCEPT !.alert = "Invalid format"]
    ELSE [u EXCEPT !.download =
            [filename |-> <<type, "-assets.", format>>,
             format |-> format,
             data |-> u.analysisResults.assets[
                        CASE type = "all" -> 1 [] type = "referenced" -> 2 [] OTHER -> 3],
             source |-> u.analysisResults]]

FrontEndFrame == UNCHANGED <<coreVars, pipeVars>>

\* the page is loaded; whether the button starts disabled is up to the
\* markup of the page
InitForm ==
    /\ op = "form"
    /\ args = <<>>
    /\ result = <<>>
    /\ done = FALSE
    /\ files = NoFiles
    /\ run = NoRuns
    /\ \E disabled \in BOOLEAN : ui = LoadedPage(disabled)

\* the user picks files in the dialog of an input, or clears the selection
Change(field) ==
    /\ \E fileList \in FileLists : ui' = onChange(setFiles(ui, field, fileList), field)
    /\ FrontEndFrame

DragOver(field) ==
    /\ ui' = [ui EXCEPT !.dragover = @ \cup {field}]
    /\ FrontEndFrame

DragLeave(field) ==
    /\ ui' = [ui EXCEPT !.dragover = @ \ {field}]
    /\ FrontEndFrame

\* drop: the files dropped are given to the input and change is dispatched,
\* unless nothing was dropped
Drop(field) ==
    /\ \E fileList \in FileLists :
          LET left == [ui EXCEPT !.dragover = @ \ {field}]
          IN ui' = IF Len(fileList) > 0
                   THEN onChange(setFiles(left, field, fileList), field)
                   ELSE left
    /\ FrontEndFrame

NextForm ==
    \E field \in {"asset", "page"} :
        \/ Change(field)
        \/ DragOver(field)
        \/ DragLeave(field)
        \/ Drop(field)

SpecForm == InitForm /\ [][NextForm]_vars

\* the page once two files within the limit are selected
InitSubmit ==
    /\ op = "submit"
    /\ args = <<>>
    /\ result = <<>>
    /\ done = FALSE
    /\ files = NoFiles
    /\ run = NoRuns
    /\ ui = onChange(setFiles(onChange(setFiles(LoadedPage(TRUE),
                "asset", <<File(0)>>), "asset"), "page", <<File(maxSize)>>), "page")

InFlight(u) == {id \in 1..MaxSubmissions : u.requests[id].pc \in {"fetch", "json"}}

\* the submit handler up to await fetch
Submit ==
    /\ ~ui.disabled
    /\ ui.submitted < MaxSubmissions
    /\ ui' = [hideResults(showLoading(hideError(ui))) EXCEPT
                !.submitted = @ + 1,
                !.requests[ui.submitted + 1].pc = "fetch"]
    /\ FrontEndFrame

\* fetch settles with a response: the handler awaits response.json()
FetchResponds(id) ==
    /\ ui.requests[id].pc = "fetch"
    /\ \E response \in Responses :
          ui' = [ui EXCEPT !.requests[id] = [pc |-> "json", response |-> response]]
    /\ FrontEndFrame

\* fetch rejects: the timer has aborted it after 10 minutes, or the network
\* failed; the catch block shows the error and the finally block hides the
\* loading
FetchRejects(id) ==
    /\ ui.requests[id].pc = "fetch"
    /\ \E name \in {"AbortError", "TypeError"} :
          ui' = [hideLoading(showError(ui,
                    IF name = "AbortError"
                    THEN "Request timed out. Please try with smaller files or check your connection."
                    ELSE "Failed to fetch"))
                 EXCEPT !.requests[id].pc = "done"]
    /\ FrontEndFrame

\* response.json() settles and the handler runs to its end
JsonSettles(id) ==
    /\ ui.requests[id].pc = "json"
    /\ ui' = [afterJson(ui, ui.requests[id].response) EXCEPT !.requests[id].pc = "done"]
    /\ FrontEndFrame

\* a click on a download button
Download ==
    /\ \E type \in {"all", "unused", "referenced", "other"}, format \in {"json", "csv", "xml"} :
          ui' = downloadResults(ui, type, format)
    /\ FrontEndFrame

NextSubmit ==
    \/ Submit
    \/ \E id \in 1..MaxSubmissions :
          \/ FetchResponds(id)
          \/ FetchRejects(id)
          \/ JsonSettles(id)
    \/ Download

SpecSubmit == InitSubmit /\ [][NextSubmit]_vars

(* What a document holds, read off the tree *)

Doc == args.file.doc

Markers(doc) ==
    {m \in 1..Len(doc) :
        /\ doc[m].tag = SvProperty /\ doc[m].name = JcrPrimaryType
        /\ doc[m].values # <<>> /\ Trim(doc[m].values[1]) = MgnlAsset
        /\ doc[m].parent # 0}

\* the asset-typed nodes
AssetNodes(doc) == {doc[m].parent : m \in Markers(doc)}

\* the properties of node n that give it an identifier
IdProps(doc, n) ==
    {c \in 1..Len(doc) :
        /\ doc[c].parent = n /\ doc[c].tag = SvProperty /\ doc[c].name = JcrUuid
        /\ doc[c].values # <<>>
        /\ \E k \in 1..Len(doc[c].values[1]) : doc[c].values[1][k] # " "}

HasIdentifier(doc, n) == IdProps(doc, n) # {}

Ancestors(doc, n) == {a \in 1..Len(doc) : a \in OpenNodesFrom(doc, doc[n].parent)}

\* the elements of a set of positions, smallest first
RECURSIVE Ascending(_)
Ascending(S) ==
    IF S = {} THEN <<>>
    ELSE LET least == CHOOSE x \in S : \A y \in S : x <= y
         IN <<least>> \o Ascending(S \ {least})

\* the named ancestors of n from the root down, a "/" between two names
RECURSIVE Slashed(_, _)
Slashed(doc, nodes) ==
    IF nodes = <<>> THEN <<>>
    ELSE LET rest == Slashed(doc, Tail(nodes))
         IN IF doc[Head(nodes)].name = <<>> THEN rest
            ELSE IF rest = <<>> THEN doc[Head(nodes)].name
            ELSE doc[Head(nodes)].name \o <<"/">> \o rest

ExpectedLocation(doc, n) ==
    LET path == Slashed(doc, Ascending(Ancestors(doc, n)))
    IN IF path = <<>> THEN <<"root">> ELSE path

----------------------------------------------------------------------------
\* C1: for every input list and matched set, analyzeAssets returns lists with
\* allAssets.length = referencedAssets.length + unusedAssets.length, and no
\* identifier is in both referencedAssets and unusedAssets.
C1_PartitionComplete ==
    Analyzed =>
        /\ Len(result.allAssets) =
              Len(result.referencedAssets) + Len(result.unusedAssets)
        /\ Uuids(result.referencedAssets) \cap Uuids(result.unusedAssets) = {}

C1_Witness ==
    /\ Analyzed
    /\ Len(result.referencedAssets) >= 1
    /\ Len(result.unusedAssets) >= 1
    /\ Len(args.assets) > Len(result.allAssets)

\* C2: analyzeAssets de-duplicates by identifier, first seen wins: each
\* identifier occurs at most once in allAssets, the record kept for an
\* identifier is the first record of the input that carries it, and the kept
\* records are in their input order.
C2_FirstSeenWins ==
    Analyzed =>
        LET all == result.allAssets
            kept == {u \in Uuids(args.assets) : u # NA}
        IN /\ \A i, j \in 1..Len(all) : all[i].uuid = all[j].uuid => i = j
           /\ Uuids(all) = kept
           /\ \A i \in 1..Len(all) : all[i] = args.assets[FirstWith(args.assets, all[i].uuid)]
           /\ \A i, j \in 1..Len(all) :
                 i < j => FirstWith(args.assets, all[i].uuid)
                             < FirstWith(args.assets, all[j].uuid)

C2_Witness ==
    /\ Analyzed
    /\ Len(result.allAssets) = 2
    /\ \E i, j \in 1..Len(args.assets) :
          /\ i < j
          /\ args.assets[i].uuid = args.assets[j].uuid
          /\ args.assets[i] # args.assets[j]
          /\ args.assets[i].uuid = U1

\* C3: analyzeAssets leaves out of allAssets, referencedAssets and
\* unusedAssets every input record without an identifier: the marker "N/A",
\* undefined, null or the empty string.
C3_NoIdentifierExcluded ==
    Analyzed =>
        \A u \in {NA, Undefined, Null, EmptyString} :
            u \notin Uuids(result.allAssets) \cup Uuids(result.referencedAssets)
                        \cup Uuids(result.unusedAssets)

\* C7: extractAssetsFromXml never throws: when reading or parsing the DAM
\* export fails at any point it returns an empty list, and no record
\* collected before the failure is returned.
C7_ExtractNeverThrows ==
    Extracted =>
        /\ ~result.threw
        /\ args.fault # NoFault => result.value = <<>>
        /\ checkerExtractAssetsFromXml(args.file, args.fault) = result

C7_Witness ==
    /\ Extracted
    /\ args.fault.at = "loop"
    /\ Len(extractLoop(Doc, args.fault.k - 1)) >= 1
    /\ result.value = <<>>

\* C8: for every asset node that carries an identifier property,
\* extractAssetsFromXml returns exactly one record with that identifier,
\* whether the file name is a direct property or comes from jcr:content, and
\* also when the node carries more than one asset-type marker property.
C8_OneRecordPerAssetNode ==
    (Extracted /\ args.fault = NoFault) =>
        LET withId == {n \in AssetNodes(Doc) : HasIdentifier(Doc, n)}
        IN /\ Len(result.value) = Cardinality(withId)
           /\ \A n \in withId :
                 \E c \in IdProps(Doc, n) : Trim(Doc[c].values[1]) \in Uuids(result.value)

C5_ExactSubstringMatches ==
    Resolved =>
        result.value = {u \in SeqToSet(args.assetUUIDs) : OccursIn(u, args.pageFile.text)}

C5_Witness ==
    /\ Resolved
    /\ args.pageFile.text = <<"/dam/jcr:", "u1", " ">>
    /\ args.assetUUIDs = <<U2, U1>>
    /\ result.value = {U1}

C6_UnreadablePageGivesAllUnused ==
    \A r \in Runs :
        (run[r].pc = "done" /\ run[r].pageReadFailed) =>
            /\ Succeeded(r)
            /\ run[r].response.assets.referencedAssets = <<>>
            /\ run[r].response.assets.unusedAssets = run[r].response.assets.allAssets

\* C11: a node whose jcr:primaryType is mgnl:resource and that has an
\* identifier is extracted as an asset record, as a node whose
\* jcr:primaryType is mgnl:asset is.
ResourceNodes(doc) ==
    {doc[m].parent : m \in {m \in 1..Len(doc) :
        /\ doc[m].tag = SvProperty /\ doc[m].name = JcrPrimaryType
        /\ doc[m].values # <<>> /\ Trim(doc[m].values[1]) = MgnlResource
        /\ doc[m].parent # 0}}

C11_ResourceNodeExtracted ==
    (Extracted /\ args.fault = NoFault) =>
        \A n \in ResourceNodes(Doc) \cup AssetNodes(Doc) :
            HasIdentifier(Doc, n) =>
                \E i \in 1..Len(result.value) :
                    result.value[i].uuid \in {Trim(Doc[d].values[1]) : d \in IdProps(Doc, n)}

\* C20: _isUUID accepts a string if and only if it is exactly 36 characters
\* long, has a dash at positions 8, 13, 18 and 23 (counted from 0) and a
\* hexadecimal digit of either letter case at every other position.
HexDigits ==
    {"0", "1", "2", "3", "4", "5", "6", "7", "8", "9",
     "a", "b", "c", "d", "e", "f", "A", "B", "C", "D", "E", "F"}

\* the shape, position by position
IdentifierShape(str) ==
    /\ Len(str) = 36
    /\ \A p \in 0..35 :
          IF p \in {8, 13, 18, 23} THEN str[p + 1] = "-" ELSE str[p + 1] \in HexDigits

C20_IsUUIDShape ==
    (op = "isUUID" /\ done) => (result <=> IdentifierShape(args.str))

C20_Witness ==
    /\ op = "isUUID" /\ done
    /\ result = TRUE
    /\ args.edits = 1
    /\ \E p \in 1..36 : args.str[p] = "E"

(* What a page export holds, read off the document *)

\* the texts of the sv:value elements and the attribute values
PageValues(doc) ==
    {doc[e].textContent : e \in {e \in 1..Len(doc) : doc[e].tagName = SvValue}}
        \cup UNION {SeqToSet(doc[e].attributes) : e \in 1..Len(doc)}

RECURSIVE YamlStrings(_)
YamlStrings(obj) ==
    IF obj.type = "string" THEN {obj.value}
    ELSE IF obj.type = "array" THEN UNION {YamlStrings(obj.items[i]) : i \in 1..Len(obj.items)}
    ELSE IF obj.type = "object"
    THEN UNION {YamlStrings(obj.entries[i].value) : i \in 1..Len(obj.entries)}
    ELSE {}

RECURSIVE YamlKeysOf(_)
YamlKeysOf(obj) ==
    IF obj.type = "array" THEN UNION {YamlKeysOf(obj.items[i]) : i \in 1..Len(obj.items)}
    ELSE IF obj.type = "object"
    THEN UNION {{obj.entries[i].key} \cup YamlKeysOf(obj.entries[i].value) :
                   i \in 1..Len(obj.entries)}
    ELSE {}

\* the values of the document under test
Values ==
    IF op = "extractPageUUIDsFromXML" THEN PageValues(args.file.doc)
    ELSE YamlStrings(args.file.yamlData)

LowerAll(str) == [k \in 1..Len(str) |-> Lower(str[k])]

\* the identifiers that follow /dam/jcr: in a text; with anyCase the prefix
\* may be written in any letter case
Embedded(text, anyCase) ==
    {SubSeq(text, p + Len(DamPrefix), p + Len(DamPrefix) + 35) :
        p \in {p \in 1..Len(text) :
                 /\ p + Len(DamPrefix) + 35 <= Len(text)
                 /\ LET prefix == SubSeq(text, p, p + Len(DamPrefix) - 1)
                    IN (IF anyCase THEN LowerAll(prefix) ELSE prefix) = DamPrefix
                 /\ IdentifierShape(SubSeq(text, p + Len(DamPrefix), p + Len(DamPrefix) + 35))}}

\* C12: under the structural XML and YAML policies every value that contains
\* /dam/jcr:<identifier>, alone or followed by more text, once or several
\* times, puts each embedded identifier into the discovered set.
C12_CompositeReferenceDiscovered ==
    Discovered =>
        \A v \in Values : Embedded(v, FALSE) \subseteq SeqToSet(result.value)

C12_Witness ==
    /\ Discovered
    /\ \E v \in Values : Embedded(v, FALSE) = {UuidA, UuidB}
    /\ result.value = <<UuidA, UuidB>>

\* C13: the composite reference is matched whatever the letter case of its
\* prefix: /DAM/JCR:<identifier> also puts the embedded identifier into the
\* discovered set, under both structural policies.
C13_CompositeCaseInsensitive ==
    Discovered =>
        \A v \in Values : Embedded(v, TRUE) \subseteq SeqToSet(result.value)

\* C18: the YAML policy applies the identifier-shape test and the composite
\* pattern to every string scalar and to every map key, at any nesting.
C18_YamlKeysAndScalars ==
    (Discovered /\ op = "extractPageUUIDsFromYAML") =>
        \A v \in YamlStrings(args.file.yamlData) \cup YamlKeysOf(args.file.yamlData) :
            /\ IdentifierShape(v) => v \in SeqToSet(result.value)
            /\ Embedded(v, FALSE) \subseteq SeqToSet(result.value)

\* C19: the XML policy returns every sv:value text and every attribute value
\* that has the identifier shape, wherever its element is in the tree, and
\* the returned list has no duplicates.
C19_XmlValuesAndAttributes ==
    (Discovered /\ op = "extractPageUUIDsFromXML") =>
        /\ \A v \in PageValues(args.file.doc) :
              IdentifierShape(v) => v \in SeqToSet(result.value)
        /\ \A i, j \in 1..Len(result.value) : result.value[i] = result.value[j] => i = j

C19_Witness ==
    /\ Discovered /\ op = "extractPageUUIDsFromXML"
    /\ \E e \in 1..Len(args.file.doc) :
          /\ args.file.doc[e].parent # 0
          /\ args.file.doc[e].tagName = SvValue
          /\ args.file.doc[e].textContent = UuidA
    /\ result.value = <<UuidA>>

\* C14: requests to POST /analyze whose steps interleave do not interfere:
\* the answer to each request is the answer its two files give when analyzed
\* alone, and no two requests in progress use the same uploaded file.
AloneResponse(r) ==
    LET given == run[r].given
        assets == IF run[r].assetReadFailed THEN <<>>
                  ELSE extractLoop(given.doc, Len(given.doc))
        referenced == searchLoop(given.text, MapUuid(assets), 1, {})
    IN IF run[r].assetFile = NoPath \/ run[r].pageFile = NoPath
       THEN [NoResponse EXCEPT !.status = 400]
       ELSE IF run[r].pageIoError THEN [NoResponse EXCEPT !.status = 500]
       ELSE [status |-> 200, assets |-> analyzeAssets(assets, referenced)]

InProgress(r) == run[r].kind = "web" /\ run[r].pc \notin {"idle", "done"}

C14_NoInterference ==
    /\ \A r \in Runs :
          (run[r].kind = "web" /\ run[r].pc = "done") => run[r].response = AloneResponse(r)
    /\ \A r1, r2 \in Runs :
          (r1 # r2 /\ InProgress(r1) /\ InProgress(r2)) =>
              {run[r1].assetFile, run[r1].pageFile} \cap {run[r2].assetFile, run[r2].pageFile} = {}

\* C16: referencedAssets is the sublist of allAssets, in its order, of the
\* records whose identifier is in the matched set, and unusedAssets the
\* sublist of the other records; a matched identifier that belongs to no
\* asset adds nothing to any list.
C16_OrderPreservingSublists ==
    Analyzed =>
        LET InMatched(a) == a.uuid \in args.referencedUUIDs
            NotInMatched(a) == a.uuid \notin args.referencedUUIDs
        IN /\ result.referencedAssets = SelectSeq(result.allAssets, InMatched)
           /\ result.unusedAssets = SelectSeq(result.allAssets, NotInMatched)
           /\ Uuids(result.allAssets) \subseteq Uuids(args.assets)

C16_Witness ==
    /\ Analyzed
    /\ U3 \in args.referencedUUIDs
    /\ MapUuid(result.referencedAssets) = <<U2, U1>>
    /\ result.unusedAssets = <<>>
    /\ Len(args.assets) = 3

\* C17: the fileName of a record is the asset node's own non-empty fileName
\* property if there is one, otherwise the fileName of its jcr:content
\* sub-node, otherwise the node's name, whatever the order of the children.
OwnFileNames(doc, n) ==
    {Trim(doc[c].values[1]) :
        c \in {c \in 1..Len(doc) :
                  /\ doc[c].parent = n /\ doc[c].tag = SvProperty
                  /\ doc[c].name = FileNameProp
                  /\ doc[c].values # <<>> /\ Trim(doc[c].values[1]) # <<>>}}

ContentFileNames(doc, n) ==
    UNION {OwnFileNames(doc, j) :
              j \in {j \in 1..Len(doc) :
                        doc[j].parent = n /\ doc[j].tag = SvNode /\ doc[j].name = JcrContent}}

C17_FileNameFallback ==
    (Extracted /\ args.fault = NoFault) =>
        LET emitting == Ascending({m \in Markers(Doc) : HasIdentifier(Doc, Doc[m].parent)})
        IN /\ Len(result.value) = Len(emitting)
           /\ \A k \in 1..Len(emitting) :
                 LET n == Doc[emitting[k]].parent
                     fileName == result.value[k].fileName
                 IN IF OwnFileNames(Doc, n) # {} THEN fileName \in OwnFileNames(Doc, n)
                    ELSE IF ContentFileNames(Doc, n) # {}
                    THEN fileName \in ContentFileNames(Doc, n)
                    ELSE fileName = Doc[n].name

C17_Witness ==
    /\ Extracted
    /\ Len(result.value) = 1
    /\ result.value[1].fileName = F1
    /\ \E j, c \in 1..Len(Doc) :
          /\ Doc[j].name = JcrContent /\ Doc[c].name = FileNameProp
          /\ Doc[c].parent = Doc[j].parent
          /\ j > c
          /\ ContentFileNames(Doc, Doc[j].parent) = {F2}

----------------------------------------------------------------------------
Extracted36(text) ==
    LET damMatches == matchAllFrom(text, 1, damRegex)
    IN {Replace(damMatches[i], DamPrefix) : i \in 1..Len(damMatches)}

\* the texts the policy under test reads: values, and the keys of YAML maps
TextsRead ==
    IF op = "extractPageUUIDsFromXML" THEN PageValues(args.file.doc)
    ELSE YamlStrings(args.file.yamlData) \cup YamlKeysOf(args.file.yamlData)

\* C23: every element returned by extractPageUUIDsFromXML and by
\* extractPageUUIDsFromYAML (_findUUIDsInObject) passes _isUUID, whatever the
\* document, and what a composite match leaves is never returned when it
\* does not have the identifier shape.
C23_OnlyIdentifiersReturned ==
    (op \in {"extractPageUUIDsFromXML", "extractPageUUIDsFromYAML"} /\ done) =>
        /\ \A i \in 1..Len(result.value) :
              isUUID(result.value[i]) /\ IdentifierShape(result.value[i])
        /\ \A v \in TextsRead : \A x \in Extracted36(v) :
              ~IdentifierShape(x) => x \notin SeqToSet(result.value)

\* a value holds a composite match that leaves 36 characters without the
\* shape, next to one that leaves an identifier, which alone is returned
C23_Witness ==
    /\ Discovered
    /\ \E v \in TextsRead : Extracted36(v) = {NotId, UuidA}
    /\ result.value = <<UuidA>>

\* the name ends, in any letter case, with one of the extensions and has
\* more characters than the extension
HasExtension(name, exts) ==
    \E e \in exts :
        /\ Len(name) > Len(e)
        /\ LowerAll(SubSeq(name, Len(name) - Len(e) + 1, Len(name))) = e

Web(r) == run[r].kind = "web"

\* C22: a request to POST /analyze whose asset file has not the extension
\* .xml, or whose page file has none of .xml, .yaml and .yml (in any letter
\* case), never reaches the extraction and is never answered with success;
\* a file with such a name does not even let the handler be entered.
C22_OnlyAcceptedTypesAnalyzed ==
    \A r \in Runs :
        /\ (Web(r) /\ ~(/\ HasExtension(run[r].assetName, {ExtXml})
                         /\ HasExtension(run[r].pageName, {ExtXml, ExtYaml, ExtYml}))) =>
              /\ run[r].pc = "done"
              /\ run[r].response.status >= 400
              /\ run[r].assets = <<>> /\ run[r].analysis = NoAnalysis
        /\ (Web(r) /\ \/ /\ run[r].assetName # <<>>
                          /\ ~HasExtension(run[r].assetName, {ExtXml})
                       \/ /\ run[r].pageName # <<>>
                          /\ ~HasExtension(run[r].pageName, {ExtXml, ExtYaml, ExtYml})) =>
              ~run[r].entered

\* an asset file named a.yaml, with a page file of an accepted name, was
\* turned away
C22_Witness ==
    /\ Web(1) /\ run[1].pc = "done"
    /\ run[1].assetName = NameYaml /\ run[1].pageName = NameYmlMixed
    /\ run[1].response.status = 500
    /\ ~run[1].entered

\* the files multer stored for the request
Uploaded(r) == {run[r].assetFile, run[r].pageFile} \ {NoPath}

\* C25: once the handler of POST /analyze has answered, no file uploaded
\* for the request is left in uploads: after a success, after a throw of the
\* analysis, and when only one of the two files was uploaded.
C25_NoUploadRemains ==
    \A r \in Runs :
        (Web(r) /\ run[r].entered /\ run[r].pc = "done") =>
            \A p \in Uploaded(r) : files[p] = NoFile

\* C26: every request that enters the handler is answered in the end, and
\* once: 400 when a file is missing, the three lists of the analysis when it
\* completes, 500 when a step throws; never twice and never not at all.
Answered(r) ==
    /\ run[r].sent <= 1
    /\ (run[r].entered /\ run[r].pc # "done") => run[r].sent = 0
    /\ (run[r].entered /\ run[r].pc = "done") =>
          /\ run[r].sent = 1
          /\ run[r].response.status =
                IF run[r].assetFile = NoPath \/ run[r].pageFile = NoPath THEN 400
                ELSE IF run[r].pageReadFailed THEN 500 ELSE 200
          /\ run[r].response.status = 200 => run[r].response.assets = run[r].analysis

Compared == op = "policies" /\ done

\* every record referenced under the structural policy is referenced under
\* the raw-text policy
StructuralWithinRawText ==
    SeqToSet(result.structural.referencedAssets) \subseteq SeqToSet(result.rawText.referencedAssets)

\* no value of the export is written with a reference, a comment or other
\* markup inside it
WrittenLiterally ==
    \A i \in 1..Len(args.written) :
        /\ \A k \in 1..Len(args.written[i].content) :
              args.written[i].content[k] \notin {"&", "<"}
        /\ \A a \in 1..Len(args.written[i].attributes) :
              \A k \in 1..Len(args.written[i].attributes[a]) :
                  args.written[i].attributes[a][k] \notin {"&", "<"}

\* C24 as stated: for every page XML document and every asset list, an
\* asset referenced under the structural XML policy is referenced under the
\* raw-text policy on the same document.
C24_StructuralWithinRawText == Compared => StructuralWithinRawText

\* C24 as it holds: the same for every page XML document whose values are
\* written literally, without character or entity references, comments or
\* other markup inside a value.
C24_StructuralWithinRawTextLiteral ==
    (Compared /\ WrittenLiterally) => StructuralWithinRawText

\* a literal export where the raw-text policy reports more: one identifier
\* in an sv:value, the other in the text of a title
C24_Witness ==
    /\ Compared /\ WrittenLiterally
    /\ Len(result.structural.referencedAssets) = 1
    /\ Len(result.rawText.referencedAssets) = 2

\* a file is selected in the input and is at most 200MB (209715200 bytes)
SelectedWithinLimit(fileList) == Len(fileList) > 0 /\ fileList[1].size <= 209715200

\* C27: after every selection or drop, in any order, the analyze button is
\* enabled exactly when an asset file and a page file are both selected and
\* each is at most 200MB; an oversized file or a cleared selection disables
\* it again.
C27_ButtonEnabledIffValid ==
    (op = "form" /\ ui.checked) =>
        (~ui.disabled <=> (SelectedWithinLimit(ui.assetFiles) /\ SelectedWithinLimit(ui.pageFiles)))

\* both files are selected, each of exactly 200MB, and the button is enabled
C27_Witness ==
    /\ op = "form" /\ ui.checked
    /\ ui.assetFiles = <<File(209715200)>> /\ ui.pageFiles = <<File(209715200)>>
    /\ ~ui.disabled

\* C28: the error message and the results panel are never shown at the
\* same time, after any submissions and answers, overlapping or not.
C28_ErrorXorResults == op = "submit" => ~(ui.error /\ ui.results)

\* C29: the loading indicator is shown exactly while a request is in
\* flight: from submit until the request settles, never once no request is
\* in flight, and always while a submitted request is pending.
C29_LoadingIffInFlight == op = "submit" => (ui.loading <=> InFlight(ui) # {})

\* C30: analysisResults is null until a submission succeeds and from then on
\* equals what the latest displayResults showed; a submission that fails, is
\* refused or times out leaves it as it was; downloadResults makes no file
\* while analysisResults is null and none from an answer that was an error.
ResultsKept ==
    op = "submit" =>
        /\ ui.succeeded = 0 => ui.analysisResults = NullResults
        /\ ui.succeeded > 0 => ui.analysisResults # NullResults
        /\ ui.analysisResults = ui.displayed
        /\ ui.analysisResults # NullResults =>
              ui.analysisResults.status = 200 /\ ui.analysisResults.json
        /\ ui.download # NoDownload =>
              /\ ui.download.source.status = 200 /\ ui.download.source.json
              /\ ui.download.data \in SeqToSet(ui.download.source.assets)

C30_ResultsOnlyFromSuccess ==
    /\ []ResultsKept
    /\ [][/\ ui.succeeded' = ui.succeeded => ui.analysisResults' = ui.analysisResults
          /\ ui.analysisResults = NullResults => ui.download' = ui.download]_vars

\* after a success a later submission failed: the first answer is still
\* kept and a file was made from it
C30_Witness ==
    /\ op = "submit"
    /\ ui.succeeded = 1 /\ ui.submitted = 2 /\ InFlight(ui) = {}
    /\ ui.error
    /\ ui.analysisResults = Response(200, TRUE, "", Lists1)
    /\ ui.download # NoDownload

====
